---- MODULE Spec2Model ----
(***************************************************************************)
(* TokenManager of src/drone/token_manager.py as a state machine.          *)
(*                                                                         *)
(* The manager's four mutable fields are the variables access_token,       *)
(* refresh_token, expires_in and token_expiry.  The wall clock             *)
(* (datetime.now()) is the variable now, in whole seconds.  The callers    *)
(* of ensure_valid_token are coroutines on one event loop: the code        *)
(* between two awaits runs without interleaving, so a call is two steps,   *)
(* the one up to `await refresh_token(...)` and the one from the           *)
(* refresher's answer to the return or raise.                              *)
(*                                                                         *)
(* entered, last, held, overlapped and retry are observation variables:    *)
(* they record what the steps did and are never read by the modelled code. *)
(***************************************************************************)
EXTENDS Integers, Sequences, FiniteSets, TLC

VARIABLES
    access_token,   \* self.access_token
    refresh_token,  \* self.refresh_token
    expires_in,     \* self.expires_in (a Python value, see PyInt / PyStr)
    token_expiry,   \* self.token_expiry, seconds on the clock of now
    now,            \* datetime.now()
    pc,             \* per caller: "idle", or "awaiting" the refresher
    sent,           \* per caller: the refresh token handed to the refresher
    refreshes,      \* per caller: refresher invocations made by the call in progress
    entered,        \* observation, per caller: when the call in progress was entered
    last,           \* observation: the most recent step and its outcome
    held,           \* observation: the payload last installed whole, and when
    overlapped,     \* observation, per caller: the operation that last ran during its await
    retry           \* observation: the refresh attempt that last ended RefreshFailed

vars == <<access_token, refresh_token, expires_in, token_expiry, now, pc, sent,
          refreshes, entered, last, held, overlapped, retry>>

fields == <<access_token, refresh_token, expires_in, token_expiry>>

(***************************************************************************)
(* Bounds and input sets                                                   *)
(***************************************************************************)
MaxTime == 3

Callers == {"c1", "c2"}

refresh_margin == 30

AccessTokens == {"A1", "A2"}

RefreshTokens == {"R1", "R2"}

Seconds == {-1, 30, 31}

Keys == {"access_token", "refresh_token", "expires_in"}

(***************************************************************************)
(* Python values of the 'expires_in' entry: an int, or something           *)
(* timedelta(seconds=...) rejects (here the str "3600"); PyNone fills the   *)
(* slot of a key the mapping does not have.                                *)
(***************************************************************************)
PyInt(n) == [type |-> "int", val |-> n]

PyStr == [type |-> "str", val |-> 0]

PyNone == [type |-> "none", val |-> 0]

(***************************************************************************)
(* auth_data / new_token_data: a dict with any subset of the three keys;   *)
(* the slot of a key the dict does not have holds "" or PyNone.            *)
(***************************************************************************)
Dict(keys, a, r, e) == [keys |-> keys, access_token |-> a, refresh_token |-> r, expires_in |-> e]

\* the dicts with all three keys and an int 'expires_in'
Complete ==
    { Dict(Keys, a, r, PyInt(n)) : a \in AccessTokens, r \in RefreshTokens, n \in Seconds }

\* d without the keys of K
Without(d, K) ==
    Dict(d.keys \ K,
         IF "access_token" \in K THEN "" ELSE d.access_token,
         IF "refresh_token" \in K THEN "" ELSE d.refresh_token,
         IF "expires_in" \in K THEN PyNone ELSE d.expires_in)

\* the malformed dicts: one complete dict with one key dropped (the first absent
\* key decides what the code does), or with a str 'expires_in'
Malformed ==
    LET d == Dict(Keys, "A2", "R2", PyInt(31)) IN
    { Without(d, {k}) : k \in Keys } \cup { [d EXCEPT !.expires_in = PyStr] }

Payloads == Complete \cup Malformed

NoPayload == [keys |-> {}, access_token |-> "", refresh_token |-> "", expires_in |-> PyNone]

(***************************************************************************)
(* Messages of the exceptions the refresher raises (str(e)).               *)
(***************************************************************************)
Messages ==
    { "invalid_grant: token revoked",
      "Token is not active",
      "400: Refresh token expired",
      "network timeout",
      "INVALID_GRANT",
      "Refresh token expire" }

\* str(KeyError(k)) is repr(k)
KeyErrorMsg(k) == "'" \o k \o "'"

\* the TypeError timedelta(seconds=<str>) raises
TypeErrorMsg == "unsupported type for timedelta seconds component: str"

NoException == [type |-> "", msg |-> ""]

Raised(type, msg) == [type |-> type, msg |-> msg]

(***************************************************************************)
(* The manager object as a record, for the operators that compute on it.   *)
(***************************************************************************)
Manager ==
    [access_token |-> access_token, refresh_token |-> refresh_token,
     expires_in |-> expires_in, token_expiry |-> token_expiry]

\* what the caller holds when __init__ raised: no object
NoObject == [access_token |-> "", refresh_token |-> "", expires_in |-> PyNone, token_expiry |-> 0]

\* __init__ (lines 6-11) on auth_data at time t: the object built, or the
\* exception that leaves the caller without one.
TokenManager(auth_data, t) ==
    IF "access_token" \notin auth_data.keys
    THEN [self |-> NoObject, exc |-> Raised("KeyError", KeyErrorMsg("access_token"))]
    ELSE IF "refresh_token" \notin auth_data.keys
    THEN [self |-> NoObject, exc |-> Raised("KeyError", KeyErrorMsg("refresh_token"))]
    ELSE IF "expires_in" \notin auth_data.keys
    THEN [self |-> NoObject, exc |-> Raised("KeyError", KeyErrorMsg("expires_in"))]
    ELSE IF auth_data.expires_in.type # "int"
    THEN [self |-> NoObject, exc |-> Raised("TypeError", TypeErrorMsg)]
    ELSE [self |-> [access_token |-> auth_data.access_token,
                    refresh_token |-> auth_data.refresh_token,
                    expires_in |-> auth_data.expires_in,
                    token_expiry |-> t + auth_data.expires_in.val],
          exc |-> NoException]

\* get_access_token (lines 13-14)
get_access_token == access_token

\* Variants of is_token_expired with a plausible slip: the margin applied on both
\* sides, `>` for `>=`, and the margin left out.
is_token_expired_margin_twice == now + refresh_margin >= (token_expiry - refresh_margin)

is_token_expired_strict == now > (token_expiry - refresh_margin)

is_token_expired_no_margin == now >= token_expiry

\* Two more: the margin added instead of subtracted, and expires_in read
\* where token_expiry is meant.
is_token_expired_margin_added == now >= (token_expiry + refresh_margin)

is_token_expired_from_expires_in == now >= (expires_in.val - refresh_margin)

\* is_token_expired (lines 16-17)
is_token_expired == now >= (token_expiry - refresh_margin)

\* Variant of RefreshAssign that keeps the old refresh_token (line 25 left out).
RefreshAssign_keeps_refresh_token(self, new_token_data, t) ==
    IF "access_token" \notin new_token_data.keys
    THEN [self |-> self, exc |-> Raised("KeyError", KeyErrorMsg("access_token"))]
    ELSE LET s1 == [self EXCEPT !.access_token = new_token_data.access_token] IN
    IF "expires_in" \notin new_token_data.keys
    THEN [self |-> s1, exc |-> Raised("KeyError", KeyErrorMsg("expires_in"))]
    ELSE LET s3 == [s1 EXCEPT !.expires_in = new_token_data.expires_in] IN
    IF new_token_data.expires_in.type # "int"
    THEN [self |-> s3, exc |-> Raised("TypeError", TypeErrorMsg)]
    ELSE [self |-> [s3 EXCEPT !.token_expiry = t + new_token_data.expires_in.val],
          exc |-> NoException]

\* Variant of RefreshAssign that keeps the old expires_in (line 26 left out).
RefreshAssign_keeps_expires_in(self, new_token_data, t) ==
    IF "access_token" \notin new_token_data.keys
    THEN [self |-> self, exc |-> Raised("KeyError", KeyErrorMsg("access_token"))]
    ELSE LET s1 == [self EXCEPT !.access_token = new_token_data.access_token] IN
    IF "refresh_token" \notin new_token_data.keys
    THEN [self |-> s1, exc |-> Raised("KeyError", KeyErrorMsg("refresh_token"))]
    ELSE LET s2 == [s1 EXCEPT !.refresh_token = new_token_data.refresh_token] IN
    IF "expires_in" \notin new_token_data.keys
    THEN [self |-> s2, exc |-> Raised("KeyError", KeyErrorMsg("expires_in"))]
    ELSE IF new_token_data.expires_in.type # "int"
    THEN [self |-> s2, exc |-> Raised("TypeError", TypeErrorMsg)]
    ELSE [self |-> [s2 EXCEPT !.token_expiry = t + new_token_data.expires_in.val],
          exc |-> NoException]

\* Variant of RefreshAssign that keeps the old access_token (line 24 left out).
RefreshAssign_keeps_access_token(self, new_token_data, t) ==
    IF "refresh_token" \notin new_token_data.keys
    THEN [self |-> self, exc |-> Raised("KeyError", KeyErrorMsg("refresh_token"))]
    ELSE LET s2 == [self EXCEPT !.refresh_token = new_token_data.refresh_token] IN
    IF "expires_in" \notin new_token_data.keys
    THEN [self |-> s2, exc |-> Raised("KeyError", KeyErrorMsg("expires_in"))]
    ELSE LET s3 == [s2 EXCEPT !.expires_in = new_token_data.expires_in] IN
    IF new_token_data.expires_in.type # "int"
    THEN [self |-> s3, exc |-> Raised("TypeError", TypeErrorMsg)]
    ELSE [self |-> [s3 EXCEPT !.token_expiry = t + new_token_data.expires_in.val],
          exc |-> NoException]

\* Lines 24-27: the four assignments from the refresher's answer at time t,
\* stopped at the first statement that raises; what was assigned before it
\* keeps its new value.
RefreshAssign(self, new_token_data, t) ==
    IF "access_token" \notin new_token_data.keys
    THEN [self |-> self, exc |-> Raised("KeyError", KeyErrorMsg("access_token"))]
    ELSE LET s1 == [self EXCEPT !.access_token = new_token_data.access_token] IN
    IF "refresh_token" \notin new_token_data.keys
    THEN [self |-> s1, exc |-> Raised("KeyError", KeyErrorMsg("refresh_token"))]
    ELSE LET s2 == [s1 EXCEPT !.refresh_token = new_token_data.refresh_token] IN
    IF "expires_in" \notin new_token_data.keys
    THEN [self |-> s2, exc |-> Raised("KeyError", KeyErrorMsg("expires_in"))]
    ELSE LET s3 == [s2 EXCEPT !.expires_in = new_token_data.expires_in] IN
    IF new_token_data.expires_in.type # "int"
    THEN [self |-> s3, exc |-> Raised("TypeError", TypeErrorMsg)]
    ELSE [self |-> [s3 EXCEPT !.token_expiry = t + new_token_data.expires_in.val],
          exc |-> NoException]

\* Line 31: any(phrase in error_msg for phrase in [...]), `in` being Python's
\* case-sensitive substring test.
Contains(s, phrase) ==
    \E i \in 1..(Len(s) - Len(phrase) + 1) : SubSeq(s, i, i + Len(phrase) - 1) = phrase

Phrases == {"Token is not active", "invalid_grant", "Refresh token expired"}

\* Variant of IsSessionExpiredMsg that knows only the first two phrases.
IsSessionExpiredMsg_two_phrases(error_msg) ==
    \/ Contains(error_msg, "Token is not active")
    \/ Contains(error_msg, "invalid_grant")

IsSessionExpiredMsg(error_msg) == \E phrase \in Phrases : Contains(error_msg, phrase)

\* Lines 29-33: the exception ensure_valid_token raises for a caught e.
Reraise(e) ==
    LET error_msg == e.msg IN
    IF IsSessionExpiredMsg(error_msg)
    THEN Raised("Exception", "SESSION_EXPIRED")
    ELSE Raised("Exception", "Failed to refresh token: " \o error_msg)

\* Variant of UpdateAssign that does not recompute token_expiry (line 41 left out).
UpdateAssign_stale_expiry(self, auth_data, t) ==
    IF "access_token" \notin auth_data.keys
    THEN [self |-> self, exc |-> Raised("KeyError", KeyErrorMsg("access_token"))]
    ELSE LET s1 == [self EXCEPT !.access_token = auth_data.access_token] IN
    IF "refresh_token" \notin auth_data.keys
    THEN [self |-> s1, exc |-> Raised("KeyError", KeyErrorMsg("refresh_token"))]
    ELSE LET s2 == [s1 EXCEPT !.refresh_token = auth_data.refresh_token] IN
    IF "expires_in" \notin auth_data.keys
    THEN [self |-> s2, exc |-> Raised("KeyError", KeyErrorMsg("expires_in"))]
    ELSE [self |-> [s2 EXCEPT !.expires_in = auth_data.expires_in],
          exc |-> NoException]

\* Lines 38-41: update_tokens' four assignments, stopped at the first that raises.
UpdateAssign(self, auth_data, t) ==
    IF "access_token" \notin auth_data.keys
    THEN [self |-> self, exc |-> Raised("KeyError", KeyErrorMsg("access_token"))]
    ELSE LET s1 == [self EXCEPT !.access_token = auth_data.access_token] IN
    IF "refresh_token" \notin auth_data.keys
    THEN [self |-> s1, exc |-> Raised("KeyError", KeyErrorMsg("refresh_token"))]
    ELSE LET s2 == [s1 EXCEPT !.refresh_token = auth_data.refresh_token] IN
    IF "expires_in" \notin auth_data.keys
    THEN [self |-> s2, exc |-> Raised("KeyError", KeyErrorMsg("expires_in"))]
    ELSE LET s3 == [s2 EXCEPT !.expires_in = auth_data.expires_in] IN
    IF auth_data.expires_in.type # "int"
    THEN [self |-> s3, exc |-> Raised("TypeError", TypeErrorMsg)]
    ELSE [self |-> [s3 EXCEPT !.token_expiry = t + auth_data.expires_in.val],
          exc |-> NoException]

(***************************************************************************)
(* Observation records                                                     *)
(***************************************************************************)
\* op: the operation; caller: the coroutine ("-" for the synchronous
\* operations); outcome: "return", "raise" or "suspend" (at the await);
\* value: the str returned, or the message of the exception raised;
\* exc: the type of the exception raised; expired: what is_token_expired()
\* returned in the step, or when the call was entered;
\* refreshes: how often the call has invoked the refresher; sent: the refresh
\* token it handed over; answer: "payload" or "error", what the refresher
\* answered; payload: the dict passed in or answered; cause: the message of
\* the exception caught; for a call that returned after a refresh, entered:
\* when it was entered, and under: the operation that last ran during its await.
Event(op, caller, outcome, value, exc, expired, n, tok, answer, payload, cause) ==
    [op |-> op, caller |-> caller, outcome |-> outcome, value |-> value, exc |-> exc,
     expired |-> expired, refreshes |-> n, sent |-> tok, answer |-> answer,
     payload |-> payload, cause |-> cause, entered |-> -1, under |-> ""]

\* the event of the call of c returning from the await
Resumed(c, event) == [event EXCEPT !.entered = entered[c], !.under = overlapped[c]]

\* overlapped[c]: "" while nothing ran during the await of c, else the latest
\* operation that did: "update_tokens" or "ensure_valid_token" (of another
\* caller) when it returned, "raised" when it raised.
Overlap(c, kind) ==
    [d \in Callers |-> IF d = c THEN ""
                       ELSE IF pc[d] = "awaiting" THEN kind
                       ELSE overlapped[d]]

\* retry.state: "none"; "pending" after a call ended RefreshFailed with nothing
\* else having written the fields during it (token: the refresh token that call
\* had sent); "retrying" while the next call (caller) is at the refresher.
NoRetry == [state |-> "none", token |-> "", caller |-> ""]

Awaiting == {c \in Callers : pc[c] = "awaiting"}

\* held after a step that ran the four assignments from payload at time t
Install(exc, payload, t) ==
    IF exc = NoException THEN [payload |-> payload, at |-> t] ELSE held

\* retry after the call of c at the refresher ended with exception e
AfterFailure(c, e) ==
    IF e.msg = "SESSION_EXPIRED" \/ overlapped[c] # ""
    THEN NoRetry
    ELSE [state |-> "pending", token |-> sent[c], caller |-> ""]

SetFields(m) ==
    /\ access_token' = m.access_token
    /\ refresh_token' = m.refresh_token
    /\ expires_in' = m.expires_in
    /\ token_expiry' = m.token_expiry

(***************************************************************************)
(* Init: the state right after TokenManager(auth_data) returned, for any   *)
(* auth_data the constructor accepts, at time 0.                           *)
(***************************************************************************)
Init ==
    \E auth_data \in Payloads :
        LET r == TokenManager(auth_data, 0) IN
        /\ r.exc = NoException
        /\ access_token = r.self.access_token
        /\ refresh_token = r.self.refresh_token
        /\ expires_in = r.self.expires_in
        /\ token_expiry = r.self.token_expiry
        /\ now = 0
        /\ pc = [c \in Callers |-> "idle"]
        /\ sent = [c \in Callers |-> ""]
        /\ refreshes = [c \in Callers |-> 0]
        /\ entered = [c \in Callers |-> -1]
        /\ last = Event("__init__", "-", "return", "", "", FALSE, 0, "", "", auth_data, "")
        /\ held = [payload |-> auth_data, at |-> 0]
        /\ overlapped = [c \in Callers |-> ""]
        /\ retry = NoRetry

(***************************************************************************)
(* Actions                                                                 *)
(***************************************************************************)
\* The clock advances; nothing of the manager runs.
Tick ==
    /\ now < MaxTime
    /\ now' = now + 1
    /\ last' = Event("tick", "-", "", "", "", FALSE, 0, "", "", NoPayload, "")
    /\ UNCHANGED <<fields, pc, sent, refreshes, entered, held, overlapped, retry>>

\* get_access_token()
GetAccessToken ==
    /\ last' = Event("get_access_token", "-", "return", get_access_token, "",
                     FALSE, 0, "", "", NoPayload, "")
    /\ UNCHANGED <<fields, now, pc, sent, refreshes, entered, held, overlapped, retry>>

\* is_token_expired()
IsTokenExpired ==
    /\ last' = Event("is_token_expired", "-", "return", "", "",
                     is_token_expired, 0, "", "", NoPayload, "")
    /\ UNCHANGED <<fields, now, pc, sent, refreshes, entered, held, overlapped, retry>>

\* ensure_valid_token, lines 20 and 34: the token is not due, return it.
EnsureValid(c) ==
    /\ pc[c] = "idle"
    /\ ~is_token_expired
    /\ last' = Event("ensure_valid_token", c, "return", access_token, "",
                     FALSE, 0, "", "", NoPayload, "")
    /\ retry' = IF retry.state = "pending" THEN NoRetry ELSE retry
    /\ UNCHANGED <<fields, now, pc, sent, refreshes, entered, held, overlapped>>

\* Variant of RefresherArgument that hands over the access token.
RefresherArgument_access_token == access_token

\* Line 23: the argument of refresh_token(session, self.refresh_token)
RefresherArgument == refresh_token

\* Variant of ResumeTime that takes the time the call was entered.
ResumeTime_entered(c) == entered[c]

\* Line 27: datetime.now(), evaluated when the call of c resumes with the answer
ResumeTime(c) == now

\* ensure_valid_token, lines 20-23: the token is due; call the refresher with
\* self.refresh_token and suspend at the await.
EnsureRefresh(c) ==
    /\ pc[c] = "idle"
    /\ is_token_expired
    /\ pc' = [pc EXCEPT ![c] = "awaiting"]
    /\ sent' = [sent EXCEPT ![c] = RefresherArgument]
    /\ refreshes' = [refreshes EXCEPT ![c] = 1]
    /\ entered' = [entered EXCEPT ![c] = now]
    /\ last' = Event("ensure_valid_token", c, "suspend", "", "",
                     TRUE, 1, RefresherArgument, "", NoPayload, "")
    /\ retry' = IF retry.state = "pending"
                THEN [retry EXCEPT !.state = "retrying", !.caller = c]
                ELSE retry
    /\ UNCHANGED <<fields, now, held, overlapped>>

\* ensure_valid_token, lines 23-34: the refresher answers new_token_data.
RefresherReturns(c, new_token_data) ==
    /\ pc[c] = "awaiting"
    /\ LET r == RefreshAssign(Manager, new_token_data, ResumeTime(c))
           e == IF r.exc = NoException THEN NoException ELSE Reraise(r.exc)
       IN
        /\ SetFields(r.self)
        /\ held' = Install(r.exc, new_token_data, now)
        /\ last' = IF e = NoException
                   THEN Resumed(c, Event("ensure_valid_token", c, "return",
                                         r.self.access_token, "", TRUE, refreshes[c],
                                         sent[c], "payload", new_token_data, ""))
                   ELSE Event("ensure_valid_token", c, "raise", e.msg, e.type,
                              TRUE, refreshes[c], sent[c], "payload", new_token_data,
                              r.exc.msg)
        /\ retry' = IF e = NoException THEN NoRetry ELSE AfterFailure(c, e)
        /\ overlapped' = Overlap(c, IF e = NoException THEN "ensure_valid_token" ELSE "raised")
    /\ pc' = [pc EXCEPT ![c] = "idle"]
    /\ sent' = [sent EXCEPT ![c] = ""]
    /\ refreshes' = [refreshes EXCEPT ![c] = 0]
    /\ entered' = [entered EXCEPT ![c] = -1]
    /\ UNCHANGED now

\* ensure_valid_token, lines 23 and 29-33: the refresher raises Exception(msg).
RefresherRaises(c, msg) ==
    /\ pc[c] = "awaiting"
    /\ LET e == Reraise(Raised("Exception", msg)) IN
        /\ last' = Event("ensure_valid_token", c, "raise", e.msg, e.type,
                         TRUE, refreshes[c], sent[c], "error", NoPayload, msg)
        /\ retry' = AfterFailure(c, e)
    /\ pc' = [pc EXCEPT ![c] = "idle"]
    /\ sent' = [sent EXCEPT ![c] = ""]
    /\ refreshes' = [refreshes EXCEPT ![c] = 0]
    /\ entered' = [entered EXCEPT ![c] = -1]
    /\ overlapped' = [overlapped EXCEPT ![c] = ""]
    /\ UNCHANGED <<fields, now, held>>

\* update_tokens(auth_data), lines 36-42
UpdateTokens(auth_data) ==
    /\ LET r == UpdateAssign(Manager, auth_data, now) IN
        /\ SetFields(r.self)
        /\ held' = Install(r.exc, auth_data, now)
        /\ last' = IF r.exc = NoException
                   THEN Event("update_tokens", "-", "return", "", "",
                              FALSE, 0, "", "", auth_data, "")
                   ELSE Event("update_tokens", "-", "raise", r.exc.msg, r.exc.type,
                              FALSE, 0, "", "", auth_data, "")
        /\ overlapped' = Overlap("-", IF r.exc = NoException THEN "update_tokens" ELSE "raised")
    /\ retry' = NoRetry
    /\ UNCHANGED <<now, pc, sent, refreshes, entered>>

\* One logical client session: a single coroutine calls ensure_valid_token.
Session == {"c1"}

Next ==
    \/ Tick
    \/ GetAccessToken
    \/ IsTokenExpired
    \/ \E c \in Session : EnsureValid(c)
    \/ \E c \in Session : EnsureRefresh(c)
    \/ \E c \in Session, new_token_data \in Payloads : RefresherReturns(c, new_token_data)
    \/ \E c \in Session, msg \in Messages : RefresherRaises(c, msg)
    \/ \E auth_data \in Payloads : UpdateTokens(auth_data)

Spec == Init /\ [][Next]_vars

\* One message of each kind of failure: a terminal and a transient one.
Failures == {"invalid_grant: token revoked", "network timeout"}

\* Several coroutines call ensure_valid_token on the same manager.  What Next
\* already covers for a single call is narrowed here: the two read-only methods
\* are left out, update_tokens gets complete dicts, and the refresher raises
\* one message of each kind.  The refresher's answers are any of Payloads.
NextConcurrent ==
    \/ Tick
    \/ \E c \in Callers : EnsureValid(c)
    \/ \E c \in Callers : EnsureRefresh(c)
    \/ \E c \in Callers, new_token_data \in Payloads : RefresherReturns(c, new_token_data)
    \/ \E c \in Callers, msg \in Failures : RefresherRaises(c, msg)
    \/ \E auth_data \in Complete : UpdateTokens(auth_data)

SpecConcurrent == Init /\ [][NextConcurrent]_vars

(***************************************************************************)
(* Vocabulary of the properties                                            *)
(***************************************************************************)
\* the step taken is the entry of an ensure_valid_token call
EnsureEntered == last'.op = "ensure_valid_token" /\ pc[last'.caller] = "idle"

\* the step taken is the second half of an ensure_valid_token call: the
\* refresher answered and the call returned or raised
EnsureResumed == last'.op = "ensure_valid_token" /\ pc[last'.caller] = "awaiting"

\* the last step ended an ensure_valid_token call, after a refresh or without one
EnsureEnded == last.op = "ensure_valid_token" /\ last.outcome \in {"return", "raise"}

\* the refresh of the call that just ended failed: the refresher raised, or
\* its answer lacks a key or has an 'expires_in' that is no number
RefreshFailedIn(e) ==
    /\ e.op = "ensure_valid_token"
    /\ e.answer = "error" \/ (e.answer = "payload" /\ e.payload \notin Complete)

\* the two failure kinds, as the exceptions ensure_valid_token raises
SessionExpired(e) == e.outcome = "raise" /\ e.value = "SESSION_EXPIRED"

RefreshFailed(e) ==
    /\ e.outcome = "raise"
    /\ e.value = "Failed to refresh token: " \o e.cause

\* msg has marker as a substring, letter case included
Mentions(msg, marker) ==
    \E i \in 1..Len(msg) :
        /\ i + Len(marker) - 1 <= Len(msg)
        /\ SubSeq(msg, i, i + Len(marker) - 1) = marker

Terminal(msg) ==
    \/ Mentions(msg, "Token is not active")
    \/ Mentions(msg, "invalid_grant")
    \/ Mentions(msg, "Refresh token expired")

(***************************************************************************)
(* C1: every ensure_valid_token call on an expired manager whose refresh   *)
(* fails (the refresher raises, or its answer is malformed) leaves         *)
(* access_token, refresh_token, expires_in and token_expiry as they were,  *)
(* whether it fails as SessionExpired or as RefreshFailed.                 *)
(***************************************************************************)
C1_FailedRefreshChangesNothing ==
    [][(EnsureResumed /\ RefreshFailedIn(last'))
         => (last'.outcome = "raise" /\ UNCHANGED fields)]_vars

\* The refresher raises: the call fails and the four fields are untouched.
C1_RefresherRaisedChangesNothing ==
    [][(EnsureResumed /\ last'.answer = "error")
         => (last'.outcome = "raise" /\ UNCHANGED fields)]_vars

(***************************************************************************)
(* C2: in every state between operations the four held fields come from    *)
(* one and the same payload, and token_expiry is that payload's            *)
(* installation time plus its expires_in.                                  *)
(***************************************************************************)
C2_FieldsFromOnePayload ==
    /\ access_token = held.payload.access_token
    /\ refresh_token = held.payload.refresh_token
    /\ expires_in = held.payload.expires_in
    /\ token_expiry = held.at + held.payload.expires_in.val

(***************************************************************************)
(* C3: a call of ensure_valid_token made while now < token_expiry - 30     *)
(* returns the held access_token, does not invoke the refresher and        *)
(* changes no held field.                                                  *)
(***************************************************************************)
C3_FreshTokenReturnedWithoutRefresh ==
    [][(EnsureEntered /\ now < token_expiry - 30)
         => /\ last'.outcome = "return"
            /\ last'.value = access_token
            /\ last'.refreshes = 0
            /\ refreshes'[last'.caller] = 0
            /\ pc'[last'.caller] = "idle"
            /\ UNCHANGED fields]_vars

C3_Witness ==
    /\ EnsureEnded
    /\ last.outcome = "return"
    /\ last.refreshes = 0
    /\ last.value = access_token
    /\ now < token_expiry - 30

(***************************************************************************)
(* C4: a call of ensure_valid_token made while now >= token_expiry - 30    *)
(* invokes the refresher exactly once before it returns or fails: it       *)
(* suspends on one invocation, and the step that ends it makes no other.   *)
(***************************************************************************)
C4_DueTokenRefreshedExactlyOnce ==
    [][/\ (EnsureEntered /\ now >= token_expiry - 30)
            => /\ last'.outcome = "suspend"
               /\ pc'[last'.caller] = "awaiting"
               /\ refreshes'[last'.caller] = 1
       /\ EnsureResumed
            => /\ last'.outcome \in {"return", "raise"}
               /\ last'.refreshes = 1
               /\ pc'[last'.caller] = "idle"]_vars

C4_Witness ==
    /\ EnsureEnded
    /\ last.expired
    /\ last.outcome = "raise"
    /\ last.answer = "error"
    /\ last.refreshes = 1
    /\ pc[last.caller] = "idle"

(***************************************************************************)
(* C5: when the refresher answers an expired manager's call with a         *)
(* well-formed payload p, the call returns p.access_token, the manager     *)
(* holds p.access_token, p.refresh_token and p.expires_in, and             *)
(* get_access_token() then returns p.access_token.                         *)
(***************************************************************************)
C5_SuccessfulRefreshInstallsPayload ==
    (EnsureEnded /\ last.answer = "payload" /\ last.payload \in Complete)
      => /\ last.outcome = "return"
         /\ last.value = last.payload.access_token
         /\ access_token = last.payload.access_token
         /\ refresh_token = last.payload.refresh_token
         /\ expires_in = last.payload.expires_in
         /\ get_access_token = last.payload.access_token

C5_Witness ==
    /\ EnsureEnded
    /\ last.answer = "payload"
    /\ last.payload = Dict(Keys, "A2", "R2", PyInt(31))
    /\ last.sent = "R1"
    /\ last.value = "A2"
    /\ refresh_token = "R2"

(***************************************************************************)
(* C6: when the refresh fails, the call returns no token: it fails with    *)
(* SessionExpired exactly when the failure message has one of "Token is    *)
(* not active", "invalid_grant", "Refresh token expired" as a              *)
(* case-sensitive substring, and otherwise with RefreshFailed carrying     *)
(* the failure message.                                                    *)
(***************************************************************************)
C6_FailureClassified ==
    (EnsureEnded /\ RefreshFailedIn(last))
      => /\ last.outcome = "raise"
         /\ SessionExpired(last) <=> Terminal(last.cause)
         /\ ~Terminal(last.cause) => RefreshFailed(last)

C6_Witness ==
    /\ EnsureEnded
    /\ last.answer = "error"
    /\ last.cause = "400: Refresh token expired"
    /\ SessionExpired(last)

(***************************************************************************)
(* C7 as stated: whenever ensure_valid_token returns a token,              *)
(* is_token_expired() is false at that instant, whatever the refresher     *)
(* answered.                                                               *)
(***************************************************************************)
C7_ReturnedTokenIsValid ==
    (EnsureEnded /\ last.outcome = "return") => ~(now >= token_expiry - 30)

(***************************************************************************)
(* C7 amended: when ensure_valid_token returns a token, is_token_expired() *)
(* is false at that instant if the call made no refresh or the refresher's *)
(* answer has expires_in > 30, and true if the answer has                  *)
(* expires_in <= 30.                                                       *)
(***************************************************************************)
C7_ReturnedTokenIsValidUnlessShortLived ==
    (EnsureEnded /\ last.outcome = "return")
      => ((now >= token_expiry - 30)
            <=> (last.answer = "payload" /\ last.payload.expires_in.val <= 30))

C7_Witness ==
    /\ EnsureEnded
    /\ last.outcome = "return"
    /\ last.answer = "payload"
    /\ last.payload.expires_in = PyInt(30)
    /\ is_token_expired

(***************************************************************************)
(* C8: after ensure_valid_token failed with RefreshFailed, the next        *)
(* ensure_valid_token call (no update_tokens in between) invokes the       *)
(* refresher again with the refresh_token of the failed attempt, and       *)
(* returns the new access_token if the refresher then succeeds.            *)
(***************************************************************************)
C8_RetryAfterRefreshFailed ==
    [][/\ (EnsureEntered /\ retry.state = "pending")
            => /\ last'.outcome = "suspend"
               /\ last'.sent = retry.token
       /\ (EnsureResumed /\ retry.state = "retrying" /\ retry.caller = last'.caller
             /\ last'.answer = "payload" /\ last'.payload \in Complete)
            => /\ last'.outcome = "return"
               /\ last'.value = last'.payload.access_token]_vars

(***************************************************************************)
(* C9: update_tokens with a payload that lacks access_token,               *)
(* refresh_token or expires_in fails and changes none of the four held     *)
(* fields.                                                                 *)
(***************************************************************************)
C9_RejectedUpdateChangesNothing ==
    [][(last'.op = "update_tokens" /\ last'.payload.keys # Keys)
         => (last'.outcome = "raise" /\ UNCHANGED fields)]_vars

(***************************************************************************)
(* C10: for every well-formed payload p and every prior state,             *)
(* update_tokens(p) followed at once by get_access_token() gives           *)
(* p.access_token, and the manager holds p.refresh_token, p.expires_in and *)
(* token_expiry = now + p.expires_in, the fields a successful refresh      *)
(* answered with p installs.                                               *)
(***************************************************************************)
C10_UpdateInstallsPayloadLikeRefresh ==
    (last.op = "update_tokens" /\ last.payload \in Complete)
      => /\ last.outcome = "return"
         /\ get_access_token = last.payload.access_token
         /\ refresh_token = last.payload.refresh_token
         /\ expires_in = last.payload.expires_in
         /\ token_expiry = now + last.payload.expires_in.val
         /\ \A a \in AccessTokens, r \in RefreshTokens :
                RefreshAssign([access_token |-> a, refresh_token |-> r,
                               expires_in |-> PyInt(0), token_expiry |-> 0],
                              last.payload, now)
                  = [self |-> Manager, exc |-> NoException]

C10_Witness ==
    /\ last.op = "update_tokens"
    /\ last.outcome = "return"
    /\ last.payload = Dict(Keys, "A2", "R1", PyInt(30))
    /\ now > 0
    /\ held.at = now
    /\ get_access_token = "A2"

(***************************************************************************)
(* C11: for a construction payload with expires_in = e, is_token_expired() *)
(* right after construction is false when e > 30 and true when e <= 30     *)
(* (e = 30 counts as expired).                                             *)
(***************************************************************************)
C11_ExpiredAfterConstructionIffShort ==
    last.op = "__init__"
      => /\ token_expiry = now + last.payload.expires_in.val
         /\ is_token_expired <=> (last.payload.expires_in.val <= 30)

C11_Witness ==
    /\ last.op = "__init__"
    /\ last.payload.expires_in = PyInt(30)
    /\ is_token_expired

(***************************************************************************)
(* C12: construction and update_tokens reject a payload whose expires_in   *)
(* is negative, and no manager ever holds a credential with                *)
(* expires_in < 0.                                                         *)
(***************************************************************************)
C12_NegativeExpiresInRejected ==
    /\ (last.op \in {"__init__", "update_tokens"} /\ last.payload.expires_in.val < 0)
         => last.outcome = "raise"
    /\ expires_in.val >= 0

(***************************************************************************)
(* C13: when several callers are in ensure_valid_token on the same expired *)
(* manager, at most one refresher invocation is in flight at any time, and *)
(* a caller whose call overlapped another caller's refresh returns the     *)
(* access_token that refresh installed.                                    *)
(***************************************************************************)
C13_SingleFlightRefresh ==
    [][/\ Cardinality({c \in Callers : pc'[c] = "awaiting"}) <= 1
       /\ (EnsureResumed /\ last'.outcome = "return"
             /\ overlapped[last'.caller] = "ensure_valid_token")
            => last'.value = access_token]_vars

(***************************************************************************)
(* C14: when ensure_valid_token calls on the same expired manager overlap  *)
(* and their refreshes succeed, each replaces the whole credential (the    *)
(* four fields are never a mix of two answers), and once all have          *)
(* completed the held credential is the answer of the refresh that         *)
(* completed last.                                                         *)
(***************************************************************************)
C14_LastCompletedRefreshWins ==
    (/\ EnsureEnded
     /\ last.outcome = "return"
     /\ last.answer = "payload"
     /\ last.under = "ensure_valid_token" \/ Awaiting # {})
      => /\ access_token = last.payload.access_token
         /\ refresh_token = last.payload.refresh_token
         /\ expires_in = last.payload.expires_in
         /\ token_expiry = now + last.payload.expires_in.val
         /\ held = [payload |-> last.payload, at |-> now]

C14_Witness ==
    /\ EnsureEnded
    /\ last.outcome = "return"
    /\ last.under = "ensure_valid_token"
    /\ Awaiting = {}
    /\ last.payload = Dict(Keys, "A1", "R1", PyInt(31))
    /\ last.sent = "R2"
    /\ Manager = [access_token |-> "A1", refresh_token |-> "R1",
                  expires_in |-> PyInt(31), token_expiry |-> now + 31]

(***************************************************************************)
(* C15: after a successful refresh during which the clock advanced,        *)
(* token_expiry is the time the refresher's answer was received plus the   *)
(* new expires_in, not the time ensure_valid_token was entered (and the    *)
(* refresher invoked) plus the new expires_in.                             *)
(***************************************************************************)
C15_ExpiryFromCompletionTime ==
    (EnsureEnded /\ last.outcome = "return" /\ last.answer = "payload")
      => /\ token_expiry = now + last.payload.expires_in.val
         /\ last.entered < now
              => token_expiry # last.entered + last.payload.expires_in.val

C15_Witness ==
    /\ EnsureEnded
    /\ last.outcome = "return"
    /\ last.answer = "payload"
    /\ last.entered = 0
    /\ now = 2
    /\ token_expiry = 2 + last.payload.expires_in.val

(***************************************************************************)
(* C16: every refresher invocation made by ensure_valid_token carries the  *)
(* refresh_token the manager holds at the moment of the invocation, so     *)
(* none started after a refresh or update_tokens replaced the              *)
(* refresh_token carries the replaced one.                                 *)
(***************************************************************************)
C16_InvocationCarriesHeldRefreshToken ==
    [][(EnsureEntered /\ last'.outcome = "suspend")
         => /\ last'.sent = refresh_token
            /\ sent'[last'.caller] = refresh_token
            /\ refresh_token' = refresh_token]_vars

C16_Witness ==
    /\ last.op = "ensure_valid_token"
    /\ last.outcome = "suspend"
    /\ held.at > 0
    /\ held.payload.refresh_token = "R2"
    /\ last.sent = "R2"
    /\ sent[last.caller] = "R2"

(***************************************************************************)
(* C17: get_access_token and is_token_expired change no held field, and    *)
(* is_token_expired() is determined by the clock and token_expiry alone,   *)
(* so repeated calls with no clock advance and no mutation in between      *)
(* return the same value.                                                  *)
(***************************************************************************)
C17_ReadOnlyMethods ==
    [][/\ last'.op = "get_access_token"
            => (UNCHANGED <<fields, now>> /\ last'.value = access_token)
       /\ last'.op = "is_token_expired"
            => /\ UNCHANGED <<fields, now>>
               /\ last'.expired = (now >= token_expiry - 30)
       /\ (last.op = "is_token_expired" /\ last'.op = "is_token_expired")
            => last'.expired = last.expired]_vars

C17_Witness ==
    /\ last.op = "is_token_expired"
    /\ last.expired
    /\ now = token_expiry - 30
    /\ Awaiting # {}

(***************************************************************************)
(* C18: the passage of time alone never changes the held credential or     *)
(* starts a refresh: the held fields change only on the success path of an *)
(* ensure_valid_token call that observed expiry or in update_tokens, and   *)
(* the refresher is invoked only from within an ensure_valid_token call.   *)
(***************************************************************************)
C18_OnlyCallsChangeTheCredential ==
    [][/\ last'.op = "tick" => UNCHANGED <<fields, pc, sent, refreshes>>
       /\ fields' # fields
            => \/ last'.op = "update_tokens"
               \/ /\ last'.op = "ensure_valid_token"
                  /\ last'.outcome = "return"
                  /\ last'.expired
       /\ (\E c \in Callers : refreshes'[c] > refreshes[c] \/ (pc[c] = "idle" /\ pc'[c] = "awaiting"))
            => (last'.op = "ensure_valid_token" /\ last'.outcome = "suspend")]_vars

(***************************************************************************)
(* C19: under any interleaving of concurrent ensure_valid_token calls on   *)
(* one manager, at the moment a call fails with SessionExpired the held    *)
(* credential is still due for refresh and the refresh_token whose refresh *)
(* failed is the one currently held.                                       *)
(***************************************************************************)
C19_SessionExpiredOnlyWithoutUsableCredential ==
    [][(/\ EnsureResumed
        /\ SessionExpired(last')
        /\ overlapped[last'.caller] \in {"", "ensure_valid_token"})
         => /\ now' >= token_expiry' - 30
            /\ refresh_token' = last'.sent]_vars

(***************************************************************************)
(* C20: if update_tokens(p) is called while a refresh of                   *)
(* ensure_valid_token is in flight and that refresh then succeeds with     *)
(* answer r, the credential update_tokens installed is not kept: the       *)
(* manager holds r's access_token, refresh_token and expires_in, and the   *)
(* call in flight returns r.access_token.                                  *)
(***************************************************************************)
C20_RefreshOverwritesUpdate ==
    (EnsureEnded /\ last.outcome = "return" /\ last.under = "update_tokens")
      => /\ last.answer = "payload"
         /\ access_token = last.payload.access_token
         /\ refresh_token = last.payload.refresh_token
         /\ expires_in = last.payload.expires_in
         /\ last.value = last.payload.access_token
         /\ held.payload = last.payload

C20_Witness ==
    /\ EnsureEnded
    /\ last.outcome = "return"
    /\ last.under = "update_tokens"
    /\ last.sent = "R2"
    /\ last.payload = Dict(Keys, "A1", "R1", PyInt(31))
    /\ access_token = "A1"
    /\ refresh_token = "R1"

====
